---- MODULE Spec2Model ----
(***************************************************************************)
(* license-guard: the compliance classification engine                     *)
(* (src/src/compliance.js).  One call of checkCompliance is a state        *)
(* machine: the state is the call's arguments, the report under            *)
(* construction, the position of the for...of loop and the call's outcome. *)
(* JavaScript values are records [t |-> type, v |-> payload]; strings keep *)
(* their characters, so trim, includes and split are computed.             *)
(***************************************************************************)
EXTENDS Integers, Sequences, FiniteSets, TLC

VARIABLES
  dependencies,   \* the first argument of checkCompliance (compliance.js:45)
  options,        \* the second argument, the policy (compliance.js:45-50)
  result,         \* the report under construction (compliance.js:52-58)
  idx,            \* how many elements for...of has consumed (compliance.js:63)
  pc,             \* "for": in the loop; "returned" (compliance.js:149); "threw";
                  \* of a command: "command", "exited", "failed"
  cli,            \* the command line that made the call, if any (cli.js:23-31, 107-111)
  rows,           \* the rows formatTable has built (formatters.js:28-73)
  exitCode,       \* <<c>> once process.exit(c) was called, else <<>>
  earlier,        \* the reports earlier calls with these arguments returned
  category        \* a call of getLicenseCategory: its argument and what it
                  \* returned (compliance.js:215-225)

vars == <<dependencies, options, result, idx, pc, cli, rows, exitCode, earlier,
          category>>

\* what only a command, or a further call, changes
outside == <<cli, rows, exitCode, earlier, category>>

(***************************************************************************)
(* Bounds of the model.                                                    *)
(***************************************************************************)
MaxDeps == 2

(***************************************************************************)
(* JavaScript values.                                                      *)
(***************************************************************************)
Str(s) == [t |-> "string", v |-> s]
Undefined == [t |-> "undefined", v |-> ""]
\* a member inherited from Object.prototype (a function or an object)
Inherited(k) == [t |-> "object", v |-> k]

IsString(x) == x.t = "string"

\* !x is false
Truthy(x) == IF x.t = "string" THEN x.v # "" ELSE x.t \notin {"undefined", "null"}

\* obj.key: a missing property, and any property of a one-character string
\* other than its own, reads as undefined
Get(obj, key) == IF key \in DOMAIN obj THEN obj[key] ELSE Undefined

\* the names every object literal inherits from Object.prototype
ObjectPrototypeKeys ==
  {"constructor", "__proto__", "hasOwnProperty", "isPrototypeOf",
   "propertyIsEnumerable", "toLocaleString", "toString", "valueOf",
   "__defineGetter__", "__defineSetter__", "__lookupGetter__", "__lookupSetter__"}

(***************************************************************************)
(* String.prototype operations, on the characters.                         *)
(***************************************************************************)
IsWhiteSpace(c) == c \in {" ", "\t", "\n", "\r"}

RECURSIVE TrimStart(_)
TrimStart(s) ==
  IF s # "" /\ IsWhiteSpace(SubSeq(s, 1, 1))
    THEN TrimStart(SubSeq(s, 2, Len(s)))
    ELSE s

RECURSIVE TrimEnd(_)
TrimEnd(s) ==
  IF s # "" /\ IsWhiteSpace(SubSeq(s, Len(s), Len(s)))
    THEN TrimEnd(SubSeq(s, 1, Len(s) - 1))
    ELSE s

\* String.prototype.trim
Trim(s) == TrimEnd(TrimStart(s))

MatchesAt(s, t, i) == SubSeq(s, i, i + Len(t) - 1) = t

\* String.prototype.indexOf, 1-based; 0 when t does not occur in s
IndexOf(s, t) ==
  LET At == {i \in 1..(Len(s) - Len(t) + 1) : MatchesAt(s, t, i)}
  IN  IF At = {} THEN 0 ELSE CHOOSE i \in At : \A j \in At : i <= j

\* String.prototype.includes
StringIncludes(s, t) == IndexOf(s, t) # 0

\* String.prototype.split with a non-empty separator
RECURSIVE Split(_, _)
Split(s, sep) ==
  LET k == IndexOf(s, sep)
  IN  IF k = 0
        THEN <<s>>
        ELSE <<SubSeq(s, 1, k - 1)>> \o Split(SubSeq(s, k + Len(sep), Len(s)), sep)

\* Array.prototype.includes on an array of strings (strict equality)
ArrayIncludes(arr, x) == IsString(x) /\ \E k \in 1..Len(arr) : arr[k] = x.v

(***************************************************************************)
(* The static taxonomy tables.                                             *)
(***************************************************************************)
PERMISSIVE_LICENSES ==
  <<"MIT", "ISC", "BSD-2-Clause", "BSD-3-Clause", "Apache-2.0",
    "Unlicense", "0BSD", "CC0-1.0", "WTFPL", "Zlib", "X11",
    "Public Domain", "CC-BY-4.0", "CC-BY-3.0", "BlueOak-1.0.0">>

COPYLEFT_LICENSES ==
  <<"GPL-2.0", "GPL-2.0-only", "GPL-2.0-or-later",
    "GPL-3.0", "GPL-3.0-only", "GPL-3.0-or-later",
    "AGPL-3.0", "AGPL-3.0-only", "AGPL-3.0-or-later">>

WEAK_COPYLEFT_LICENSES ==
  <<"LGPL-2.0", "LGPL-2.1", "LGPL-3.0",
    "MPL-2.0", "EPL-1.0", "EPL-2.0",
    "OSL-3.0", "CDDL-1.0", "CDDL-1.1">>

PROBLEMATIC_LICENSES ==
  <<"AGPL-3.0", "AGPL-3.0-only", "AGPL-3.0-or-later",
    "SSPL-1.0",
    "CC-BY-NC-4.0", "CC-BY-NC-SA-4.0",
    "CC-BY-ND-4.0",
    "Prosperity-3.0.0",
    "BSL-1.0">>

\* a variant with one entry more, written backwards: the canonical
\* identifier is the key and the spelling variant the value
mappings_Backwards ==
  [k \in {"Apache 2.0", "Apache License 2.0", "Apache-2", "BSD", "GPL",
          "GPLv3", "GPLv2", "LGPL", "MIT License", "(MIT)", "BSD-3-Clause"} |->
     CASE k = "Apache 2.0" -> "Apache-2.0"
       [] k = "Apache License 2.0" -> "Apache-2.0"
       [] k = "Apache-2" -> "Apache-2.0"
       [] k = "BSD" -> "BSD-3-Clause"
       [] k = "GPL" -> "GPL-3.0"
       [] k = "GPLv3" -> "GPL-3.0"
       [] k = "GPLv2" -> "GPL-2.0"
       [] k = "LGPL" -> "LGPL-3.0"
       [] k = "MIT License" -> "MIT"
       [] k = "(MIT)" -> "MIT"
       [] k = "BSD-3-Clause" -> "BSD"]

\* the own properties of the object literal `mappings`
mappings ==
  [k \in {"Apache 2.0", "Apache License 2.0", "Apache-2", "BSD", "GPL",
          "GPLv3", "GPLv2", "LGPL", "MIT License", "(MIT)"} |->
     CASE k = "Apache 2.0" -> "Apache-2.0"
       [] k = "Apache License 2.0" -> "Apache-2.0"
       [] k = "Apache-2" -> "Apache-2.0"
       [] k = "BSD" -> "BSD-3-Clause"
       [] k = "GPL" -> "GPL-3.0"
       [] k = "GPLv3" -> "GPL-3.0"
       [] k = "GPLv2" -> "GPL-2.0"
       [] k = "LGPL" -> "LGPL-3.0"
       [] k = "MIT License" -> "MIT"
       [] k = "(MIT)" -> "MIT"]

\* the own properties of the object literal `reasons`
reasons ==
  [k \in {"AGPL-3.0", "AGPL-3.0-only", "AGPL-3.0-or-later", "SSPL-1.0",
          "CC-BY-NC-4.0", "CC-BY-NC-SA-4.0", "CC-BY-ND-4.0",
          "Prosperity-3.0.0", "BSL-1.0"} |->
     CASE k \in {"AGPL-3.0", "AGPL-3.0-only", "AGPL-3.0-or-later"} ->
            "Network copyleft - requires source disclosure for SaaS"
       [] k = "SSPL-1.0" -> "Server Side Public License - very restrictive for services"
       [] k \in {"CC-BY-NC-4.0", "CC-BY-NC-SA-4.0", "Prosperity-3.0.0"} ->
            "Non-commercial use only"
       [] k = "CC-BY-ND-4.0" -> "No derivatives allowed"
       [] k = "BSL-1.0" -> "Business Source License - commercial restrictions"]

\* table[key] on an object literal: an own property, else what the literal
\* inherits from Object.prototype, else undefined
Lookup(table, key) ==
  IF key \in DOMAIN table THEN Str(table[key])
  ELSE IF key \in ObjectPrototypeKeys THEN Inherited(key)
  ELSE Undefined

(***************************************************************************)
(* normalizeLicense                                                        *)
(***************************************************************************)
\* a variant that tests the options with isPermissive, which normalizes them
FindPermissive_Normalizing(opts) ==
  LET Hits == {k \in 1..Len(opts) :
                 \/ ArrayIncludes(PERMISSIVE_LICENSES, Str(opts[k]))
                 \/ /\ opts[k] \in DOMAIN mappings
                    /\ ArrayIncludes(PERMISSIVE_LICENSES, Str(mappings[opts[k]]))}
  IN  IF Hits = {} THEN 0 ELSE CHOOSE k \in Hits : \A j \in Hits : k <= j

\* options.find(l => PERMISSIVE_LICENSES.includes(l)): the index of the
\* first permissive option, 0 when there is none
FindPermissive(opts) ==
  LET Hits == {k \in 1..Len(opts) : ArrayIncludes(PERMISSIVE_LICENSES, Str(opts[k]))}
  IN  IF Hits = {} THEN 0 ELSE CHOOSE k \in Hits : \A j \in Hits : k <= j

\* the license is absent or a string
normalizeLicense(license) ==
  IF ~Truthy(license) THEN Str("UNKNOWN")
  ELSE
    LET normalized == Trim(license.v)
    IN  IF StringIncludes(normalized, " OR ")
          THEN LET opts == [k \in 1..Len(Split(normalized, " OR ")) |->
                              Trim(Split(normalized, " OR ")[k])]
                   permissive == FindPermissive(opts)
               IN  IF permissive # 0 THEN Str(opts[permissive]) ELSE Str(opts[1])
          ELSE LET mapped == Lookup(mappings, normalized)
               IN  IF Truthy(mapped) THEN mapped ELSE Str(normalized)

\* mutant: the project license is looked up as given, without normalizing it
isPermissive_AsGiven(license) == ArrayIncludes(PERMISSIVE_LICENSES, license)

isPermissive(license) == ArrayIncludes(PERMISSIVE_LICENSES, normalizeLicense(license))

\* mutant: the reason table lacks the entry
getProblematicReason_NoEntry(license) == Str("License has usage restrictions")

getProblematicReason(license) ==
  LET r == Lookup(reasons, license.v)
  IN  IF Truthy(r) THEN r ELSE Str("License has usage restrictions")

(***************************************************************************)
(* The arguments of a call.                                                *)
(***************************************************************************)
\* the raw license of a dependency record: absent, or a string
RawLicenses ==
  {Undefined, Str(""), Str(" "), Str("UNKNOWN"), Str("UNKNOWN (Go module)"),
   Str("MIT"), Str(" MIT License "), Str("GPL-3.0"), Str("GPLv2"),
   Str("AGPL-3.0"), Str("SSPL-1.0"), Str("LGPL-3.0"),
   Str("GPL OR LGPL"), Str(" GPL-3.0  OR MIT License OR ISC "), Str("Custom"), Str("constructor")}

Names == {Str("a"), Str("b")}

Versions == {Str("1.0.0")}

DependencyRecords == [name : Names, version : Versions, license : RawLicenses]

Array(items) == [t |-> "array", v |-> items]

\* every identifier of the four tables and every key of the alias table
TableLicenses ==
  {Str(PERMISSIVE_LICENSES[k]) : k \in 1..Len(PERMISSIVE_LICENSES)}
    \cup {Str(COPYLEFT_LICENSES[k]) : k \in 1..Len(COPYLEFT_LICENSES)}
    \cup {Str(WEAK_COPYLEFT_LICENSES[k]) : k \in 1..Len(WEAK_COPYLEFT_LICENSES)}
    \cup {Str(PROBLEMATIC_LICENSES[k]) : k \in 1..Len(PROBLEMATIC_LICENSES)}
    \cup {Str(k) : k \in DOMAIN mappings}

\* the lists of at most MaxDeps dependencies over RawLicenses, and the
\* one-dependency lists over TableLicenses
Arrays ==
  {Array(items) : items \in UNION {[1..n -> DependencyRecords] : n \in 0..MaxDeps}}
    \cup {Array(<<r>>) : r \in [name : Names, version : Versions, license : TableLicenses]}

\* arguments that are not arrays: strings, a plain object, null
NonArrays == {Str("ab"), [t |-> "object", v |-> ""], [t |-> "null", v |-> ""]}

ProjectLicenses == {Undefined, Str("MIT License"), Str("GPL-3.0")}

AllowLists == {<<>>, <<"LGPL-3.0", "AGPL-3.0", "GPL-3.0", "UNKNOWN", "GPL OR LGPL">>}

DenyLists == {<<>>, <<"MIT", "UNKNOWN", "GPL-3.0", "GPL OR LGPL">>}

(***************************************************************************)
(* checkCompliance                                                         *)
(***************************************************************************)
\* the defaults of the destructuring of `options`
projectLicense ==
  IF options.projectLicense = Undefined THEN Str("MIT") ELSE options.projectLicense

allowList == options.allowList

denyList == options.denyList

Elements(arr) == {arr[k] : k \in 1..Len(arr)}

\* new Set([...PERMISSIVE_LICENSES, ...allowList])
allowed == Elements(PERMISSIVE_LICENSES) \cup Elements(allowList)

\* new Set(denyList)
denied == Elements(denyList)

\* Set.prototype.has on a set of strings
SetHas(set, x) == IsString(x) /\ x.v \in set

\* for...of accepts an array or a string (which it walks by character)
Iterable(d) == d.t \in {"array", "string"}

Items(d) ==
  IF d.t = "array" THEN d.v ELSE [k \in 1..Len(d.v) |-> Str(SubSeq(d.v, k, k))]

EmptyResult(pl) ==
  [projectLicense |-> pl, compliant |-> <<>>, warnings |-> <<>>,
   violations |-> <<>>, unknown |-> <<>>]

\* the dependency the loop is about to classify, and its normalized license
dep == Items(dependencies)[idx + 1]

license == normalizeLicense(Get(dep, "license"))

Buckets == {"compliant", "warnings", "violations", "unknown"}

\* mutant: only the exact identifier counts as unknown
IsUnknown_Exact(l) == l.v = "UNKNOWN"

\* license === 'UNKNOWN' || license.includes('UNKNOWN'), on a string
IsUnknown(l) == l.v = "UNKNOWN" \/ StringIncludes(l.v, "UNKNOWN")

\* mutant: the allow list is consulted before the deny list
Rule_AllowFirst(l) ==
  IF ~IsString(l) THEN "TypeError"
  ELSE IF IsUnknown(l) THEN "unknown"
  ELSE IF SetHas(allowed, l) \/ ArrayIncludes(allowList, l) THEN "allowed"
  ELSE IF SetHas(denied, l) THEN "denied"
  ELSE IF ArrayIncludes(PROBLEMATIC_LICENSES, l) THEN "problematic"
  ELSE IF ArrayIncludes(COPYLEFT_LICENSES, l) THEN "copyleft"
  ELSE IF ArrayIncludes(WEAK_COPYLEFT_LICENSES, l) THEN "weak-copyleft"
  ELSE "unrecognized"

\* mutant: the problematic set is consulted before the allow list
Rule_ProblematicFirst(l) ==
  IF ~IsString(l) THEN "TypeError"
  ELSE IF IsUnknown(l) THEN "unknown"
  ELSE IF SetHas(denied, l) THEN "denied"
  ELSE IF ArrayIncludes(PROBLEMATIC_LICENSES, l) THEN "problematic"
  ELSE IF SetHas(allowed, l) \/ ArrayIncludes(allowList, l) THEN "allowed"
  ELSE IF ArrayIncludes(COPYLEFT_LICENSES, l) THEN "copyleft"
  ELSE IF ArrayIncludes(WEAK_COPYLEFT_LICENSES, l) THEN "weak-copyleft"
  ELSE "unrecognized"

\* mutant: the weak-copyleft set is never consulted
Rule_NoWeakCopyleft(l) ==
  IF ~IsString(l) THEN "TypeError"
  ELSE IF IsUnknown(l) THEN "unknown"
  ELSE IF SetHas(denied, l) THEN "denied"
  ELSE IF SetHas(allowed, l) \/ ArrayIncludes(allowList, l) THEN "allowed"
  ELSE IF ArrayIncludes(PROBLEMATIC_LICENSES, l) THEN "problematic"
  ELSE IF ArrayIncludes(COPYLEFT_LICENSES, l) THEN "copyleft"
  ELSE "unrecognized"

\* the if-chain of the loop body: the first rule that applies to a
\* normalized license; a license that is not a string has no includes method
Rule(l) ==
  IF ~IsString(l) THEN "TypeError"
  ELSE IF IsUnknown(l) THEN "unknown"
  ELSE IF SetHas(denied, l) THEN "denied"
  ELSE IF SetHas(allowed, l) \/ ArrayIncludes(allowList, l) THEN "allowed"
  ELSE IF ArrayIncludes(PROBLEMATIC_LICENSES, l) THEN "problematic"
  ELSE IF ArrayIncludes(COPYLEFT_LICENSES, l) THEN "copyleft"
  ELSE IF ArrayIncludes(WEAK_COPYLEFT_LICENSES, l) THEN "weak-copyleft"
  ELSE "unrecognized"

Finding(d, l, reason) ==
  [package |-> Get(d, "name"), version |-> Get(d, "version"),
   license |-> l, reason |-> reason]

\* a variant that puts the finding at the head of the bucket (unshift)
Push_Unshift(bucket, finding) ==
  /\ result' = [result EXCEPT ![bucket] = <<finding>> \o @]
  /\ idx' = idx + 1
  /\ UNCHANGED <<dependencies, options, pc, outside>>

\* result.<bucket>.push(finding); continue
Push(bucket, finding) ==
  /\ result' = [result EXCEPT ![bucket] = Append(@, finding)]
  /\ idx' = idx + 1
  /\ UNCHANGED <<dependencies, options, pc, outside>>

\* no call of getLicenseCategory is under way
NoCategoryCall == [license |-> Undefined, returned |-> <<>>]

\* a call made through the programmatic API, by no command
ApiCall == [command |-> "api", strict |-> FALSE, format |-> "none"]

InLoop == pc = "for" /\ Iterable(dependencies) /\ idx < Len(Items(dependencies))

Init ==
  /\ \/ dependencies \in Arrays
     \/ dependencies \in NonArrays
  /\ options \in [projectLicense : ProjectLicenses, allowList : AllowLists,
                   denyList : DenyLists]
  /\ result = EmptyResult(projectLicense)
  /\ idx = 0
  /\ pc = "for"
  /\ cli = ApiCall
  /\ rows = <<>>
  /\ exitCode = <<>>
  /\ earlier = <<>>
  /\ category = NoCategoryCall

\* for (const dep of dependencies) on a value that is not iterable
NotIterable ==
  /\ pc = "for"
  /\ ~Iterable(dependencies)
  /\ pc' = "threw"
  /\ UNCHANGED <<dependencies, options, result, idx, outside>>

\* license.includes is not a function
IncludesTypeError ==
  /\ InLoop
  /\ Rule(license) = "TypeError"
  /\ pc' = "threw"
  /\ UNCHANGED <<dependencies, options, result, idx, outside>>

UnknownLicense ==
  /\ InLoop
  /\ Rule(license) = "unknown"
  /\ Push("unknown", Finding(dep, Get(dep, "license"),
                             Str("License could not be determined")))

DeniedLicense ==
  /\ InLoop
  /\ Rule(license) = "denied"
  /\ Push("violations", Finding(dep, license, Str("License is explicitly denied")))

AllowedLicense ==
  /\ InLoop
  /\ Rule(license) = "allowed"
  /\ Push("compliant", [package |-> Get(dep, "name"),
                        version |-> Get(dep, "version"), license |-> license])

ProblematicLicense ==
  /\ InLoop
  /\ Rule(license) = "problematic"
  /\ Push("violations", Finding(dep, license, getProblematicReason(license)))

CopyleftLicense ==
  /\ InLoop
  /\ Rule(license) = "copyleft"
  /\ IF isPermissive(projectLicense)
       THEN Push("violations", Finding(dep, license,
              Str("Copyleft license incompatible with " \o projectLicense.v \o " project")))
       ELSE Push("warnings", Finding(dep, license,
              Str("Copyleft license - check distribution requirements")))

WeakCopyleftLicense ==
  /\ InLoop
  /\ Rule(license) = "weak-copyleft"
  /\ Push("warnings", Finding(dep, license,
            Str("Weak copyleft - may require source disclosure for modifications")))

UnrecognizedLicense ==
  /\ InLoop
  /\ Rule(license) = "unrecognized"
  /\ Push("warnings", Finding(dep, license,
            Str("Unrecognized license - manual review recommended")))

\* return result
Return ==
  /\ pc = "for"
  /\ Iterable(dependencies)
  /\ idx = Len(Items(dependencies))
  /\ pc' = "returned"
  /\ UNCHANGED <<dependencies, options, result, idx, outside>>

Next ==
  \/ NotIterable
  \/ IncludesTypeError
  \/ UnknownLicense
  \/ DeniedLicense
  \/ AllowedLicense
  \/ ProblematicLicense
  \/ CopyleftLicense
  \/ WeakCopyleftLicense
  \/ UnrecognizedLicense
  \/ Return

Spec == Init /\ [][Next]_vars

(***************************************************************************)
(* getLicenseCategory, called through the programmatic API.                *)
(***************************************************************************)
\* what a call that throws gives instead of a value
TypeError == [t |-> "throw", v |-> "TypeError"]

\* a variant that tests the strong-copyleft table before the problematic one
getLicenseCategory_CopyleftFirst(l) ==
  LET normalized == normalizeLicense(l)
  IN  IF ~IsString(normalized) THEN TypeError
      ELSE IF IsUnknown(normalized) THEN Str("unknown")
      ELSE IF ArrayIncludes(COPYLEFT_LICENSES, normalized) THEN Str("copyleft")
      ELSE IF ArrayIncludes(PROBLEMATIC_LICENSES, normalized) THEN Str("problematic")
      ELSE IF ArrayIncludes(PERMISSIVE_LICENSES, normalized) THEN Str("permissive")
      ELSE IF ArrayIncludes(WEAK_COPYLEFT_LICENSES, normalized) THEN Str("weak-copyleft")
      ELSE Str("other")

\* the category, or TypeError when normalized.includes is not a function
getLicenseCategory(l) ==
  LET normalized == normalizeLicense(l)
  IN  IF ~IsString(normalized) THEN TypeError
      ELSE IF IsUnknown(normalized) THEN Str("unknown")
      ELSE IF ArrayIncludes(PROBLEMATIC_LICENSES, normalized) THEN Str("problematic")
      ELSE IF ArrayIncludes(PERMISSIVE_LICENSES, normalized) THEN Str("permissive")
      ELSE IF ArrayIncludes(COPYLEFT_LICENSES, normalized) THEN Str("copyleft")
      ELSE IF ArrayIncludes(WEAK_COPYLEFT_LICENSES, normalized) THEN Str("weak-copyleft")
      ELSE Str("other")

\* the licenses a caller asks the category of
CategoryArguments == RawLicenses \cup TableLicenses

InitCategory ==
  /\ category \in [license : CategoryArguments, returned : {<<>>}]
  /\ pc = "getLicenseCategory"
  /\ dependencies = Array(<<>>)
  /\ options = [projectLicense |-> Undefined, allowList |-> <<>>, denyList |-> <<>>]
  /\ result = EmptyResult(projectLicense)
  /\ idx = 0
  /\ cli = ApiCall
  /\ rows = <<>>
  /\ exitCode = <<>>
  /\ earlier = <<>>

\* the call returns the category
GetLicenseCategory ==
  /\ pc = "getLicenseCategory"
  /\ getLicenseCategory(category.license) # TypeError
  /\ category' = [category EXCEPT !.returned = <<getLicenseCategory(category.license)>>]
  /\ pc' = "returned"
  /\ UNCHANGED <<dependencies, options, result, idx, cli, rows, exitCode, earlier>>

\* normalized.includes is not a function
GetLicenseCategoryTypeError ==
  /\ pc = "getLicenseCategory"
  /\ getLicenseCategory(category.license) = TypeError
  /\ pc' = "threw"
  /\ UNCHANGED <<dependencies, options, result, idx, outside>>

NextCategory ==
  \/ GetLicenseCategory
  \/ GetLicenseCategoryTypeError

SpecCategory == InitCategory /\ [][NextCategory]_vars

(***************************************************************************)
(* The scan and check commands of the command line, from the moment the    *)
(* scanner has returned the dependencies of the project.                   *)
(***************************************************************************)
Bool(b) == [t |-> "boolean", v |-> IF b THEN "true" ELSE "false"]

\* a variant in which the npm scanner, without node_modules, points at the
\* manifest instead of marking the license unknown
ManifestLicense_SeeManifest ==
  [s \in {"npm", "pip", "go", "cargo"} |->
     CASE s = "npm" -> "See package.json"
       [] s = "pip" -> "UNKNOWN (use pip-licenses for details)"
       [] s = "go" -> "UNKNOWN (Go module)"
       [] s = "cargo" -> "UNKNOWN (Cargo crate)"]

\* the license the scanners give a dependency they read from a manifest
\* only, by the package manager of the manifest
ManifestLicense ==
  [s \in {"npm", "pip", "go", "cargo"} |->
     CASE s = "npm" -> "UNKNOWN (run npm install)"
       [] s = "pip" -> "UNKNOWN (use pip-licenses for details)"
       [] s = "go" -> "UNKNOWN (Go module)"
       [] s = "cargo" -> "UNKNOWN (Cargo crate)"]

\* the records of dependencies read from package.json without node_modules,
\* requirements.txt, go.mod and Cargo.toml
ManifestRecords ==
  {[name |-> n, version |-> v, license |-> Str(ManifestLicense[s]),
    source |-> Str(s), installed |-> Bool(FALSE)] :
     n \in Names, v \in Versions, s \in DOMAIN ManifestLicense}

\* the license getPackageInfo reads from the package.json of an installed
\* package
InstalledLicenses ==
  {Str("MIT"), Str("GPL-3.0"), Str("LGPL-3.0"), Str("AGPL-3.0"),
   Str("See LICENSE file"), Str("constructor")}

\* the records of the packages found in node_modules (their repository and
\* author, which nothing reads, are left out)
InstalledRecords ==
  {[name |-> n, version |-> v, license |-> l,
    source |-> Str("npm"), installed |-> Bool(TRUE)] :
     n \in Names, v \in Versions, l \in InstalledLicenses}

ScanRecords == ManifestRecords \cup InstalledRecords

\* results.dependencies
ScannedArrays ==
  {Array(items) : items \in UNION {[1..n -> ScanRecords] : n \in 0..MaxDeps}}

\* --license, 'MIT' when not given
CliProjectLicenses == {Str("MIT"), Str("GPL-3.0")}

ScanCommands == [command : {"scan"}, strict : BOOLEAN, format : {"table", "json"}]

\* the check command has the option --license only
CheckCommands == [command : {"check"}, strict : {FALSE}, format : {"none"}]

InitCli ==
  /\ dependencies \in ScannedArrays
  /\ \/ /\ cli \in ScanCommands
        /\ options \in [projectLicense : CliProjectLicenses,
                        allowList : AllowLists, denyList : DenyLists]
     \/ /\ cli \in CheckCommands
        /\ options \in [projectLicense : CliProjectLicenses,
                        allowList : {<<>>}, denyList : {<<>>}]
  /\ result = EmptyResult(projectLicense)
  /\ idx = 0
  /\ pc = "command"
  /\ rows = <<>>
  /\ exitCode = <<>>
  /\ earlier = <<>>
  /\ category = NoCategoryCall

\* process.exit(code) within the try block, and from the catch block
Exit(code) == exitCode' = <<code>> /\ pc' = "exited"

ExitFromCatch(code) == exitCode' = <<code>> /\ pc' = "failed"

\* scan: if (results.dependencies.length === 0) process.exit(0)
ScanNoDependencies ==
  /\ pc = "command"
  /\ cli.command = "scan"
  /\ Len(Items(dependencies)) = 0
  /\ Exit(0)
  /\ UNCHANGED <<dependencies, options, result, idx, cli, rows, earlier, category>>

\* the command calls checkCompliance(results.dependencies, {...})
CallCheckCompliance ==
  /\ pc = "command"
  /\ cli.command = "scan" => Len(Items(dependencies)) # 0
  /\ result' = EmptyResult(projectLicense)
  /\ idx' = 0
  /\ pc' = "for"
  /\ UNCHANGED <<dependencies, options, outside>>

\* truncate(str, len); "~" stands for the one character U+2026
truncate(str, len) ==
  IF ~Truthy(str) THEN Str("")
  ELSE IF Len(str.v) <= len THEN str
  ELSE Str(SubSeq(str.v, 1, len - 1) \o "~")

\* new Map(findings.map(f => [f.package, f])).has(name)
MapHas(findings, name) == \E j \in 1..Len(findings) : findings[j].package = name

\* ....get(name): of the findings of that package, the last
MapGet(findings, name) ==
  LET At == {j \in 1..Len(findings) : findings[j].package = name}
  IN  findings[CHOOSE j \in At : \A i \in At : i <= j]

\* the row formatTable pushes for a dependency: the cells, the category that
\* colours the license, and the mark and text of the status
Row(d, compliance) ==
  LET lic == IF Truthy(Get(d, "license")) THEN Get(d, "license") ELSE Str("UNKNOWN")
      name == Get(d, "name")
  IN  [package |-> truncate(name, 33),
       version |-> IF Truthy(Get(d, "version")) THEN Get(d, "version") ELSE Str("-"),
       license |-> lic,
       category |-> getLicenseCategory(lic),
       status |->
         IF MapHas(compliance.violations, name)
           THEN [mark |-> "violation",
                 text |-> truncate(MapGet(compliance.violations, name).reason, 20)]
         ELSE IF MapHas(compliance.warnings, name)
           THEN [mark |-> "warning",
                 text |-> truncate(MapGet(compliance.warnings, name).reason, 20)]
         ELSE IF MapHas(compliance.unknown, name)
           THEN [mark |-> "unknown", text |-> Str("Unknown")]
         ELSE [mark |-> "ok", text |-> Str("OK")]]

\* the rows of the table, one for each dependency, in their order
formatTable(deps, compliance) ==
  [k \in 1..Len(Items(deps)) |-> Row(Items(deps)[k], compliance)]

\* a variant of the scan command that exits with 1 on warnings whether
\* --strict was given or not
ScanExitCode_WarningsAlways ==
  IF Len(result.violations) > 0 THEN 2
  ELSE IF Len(result.warnings) > 0 THEN 1
  ELSE 0

\* scan: the exit codes for CI
ScanExitCode ==
  IF Len(result.violations) > 0 THEN 2
  ELSE IF cli.strict /\ Len(result.warnings) > 0 THEN 1
  ELSE 0

\* scan --format table: the table is printed, then the summary, and the
\* process exits
ScanPrintTable ==
  /\ pc = "returned"
  /\ cli.command = "scan"
  /\ cli.format # "json"
  /\ rows' = formatTable(dependencies, result)
  /\ Exit(ScanExitCode)
  /\ UNCHANGED <<dependencies, options, result, idx, cli, earlier, category>>

\* scan --format json
ScanPrintJson ==
  /\ pc = "returned"
  /\ cli.command = "scan"
  /\ cli.format = "json"
  /\ Exit(ScanExitCode)
  /\ UNCHANGED <<dependencies, options, result, idx, cli, rows, earlier, category>>

\* check: 0 when there are neither violations nor warnings, 2 when there are
\* violations, 1 when there are warnings
CheckExitCode ==
  IF Len(result.violations) = 0 /\ Len(result.warnings) = 0 THEN 0
  ELSE IF Len(result.violations) > 0 THEN 2
  ELSE 1

CheckExit ==
  /\ pc = "returned"
  /\ cli.command = "check"
  /\ Exit(CheckExitCode)
  /\ UNCHANGED <<dependencies, options, result, idx, cli, rows, earlier, category>>

\* catch (error) { ...; process.exit(1) }, of both commands
Catch ==
  /\ pc = "threw"
  /\ ExitFromCatch(1)
  /\ UNCHANGED <<dependencies, options, result, idx, cli, rows, earlier, category>>

NextCli ==
  \/ ScanNoDependencies
  \/ CallCheckCompliance
  \/ IncludesTypeError
  \/ UnknownLicense
  \/ DeniedLicense
  \/ AllowedLicense
  \/ ProblematicLicense
  \/ CopyleftLicense
  \/ WeakCopyleftLicense
  \/ UnrecognizedLicense
  \/ Return
  \/ ScanPrintTable
  \/ ScanPrintJson
  \/ CheckExit
  \/ Catch

SpecCli == InitCli /\ [][NextCli]_vars

(***************************************************************************)
(* A caller that calls checkCompliance a second time, with the arguments   *)
(* of its first call.                                                      *)
(***************************************************************************)
RepeatLicenses ==
  {Undefined, Str("MIT"), Str("GPL-3.0"), Str("AGPL-3.0"), Str("LGPL-3.0"),
   Str("Custom"), Str("constructor")}

RepeatArrays ==
  {Array(items) :
     items \in UNION {[1..n -> [name : Names, version : Versions,
                                license : RepeatLicenses]] : n \in 0..MaxDeps}}

InitRepeat ==
  /\ \/ dependencies \in RepeatArrays
     \/ dependencies \in NonArrays
  /\ options \in [projectLicense : ProjectLicenses, allowList : AllowLists,
                   denyList : DenyLists]
  /\ result = EmptyResult(projectLicense)
  /\ idx = 0
  /\ pc = "for"
  /\ cli = ApiCall
  /\ rows = <<>>
  /\ exitCode = <<>>
  /\ earlier = <<>>
  /\ category = NoCategoryCall

\* a variant in which the report is one object of the module, shared by the
\* calls, instead of an object the call creates
CallAgain_SharedReport ==
  /\ pc = "returned"
  /\ earlier = <<>>
  /\ earlier' = <<result>>
  /\ idx' = 0
  /\ pc' = "for"
  /\ UNCHANGED <<dependencies, options, result, cli, rows, exitCode, category>>

\* the caller keeps the report it got and calls again: the call creates its
\* report (const result = {...}) and starts its loop
CallAgain ==
  /\ pc = "returned"
  /\ earlier = <<>>
  /\ earlier' = <<result>>
  /\ result' = EmptyResult(projectLicense)
  /\ idx' = 0
  /\ pc' = "for"
  /\ UNCHANGED <<dependencies, options, cli, rows, exitCode, category>>

NextRepeat ==
  \/ NotIterable
  \/ IncludesTypeError
  \/ UnknownLicense
  \/ DeniedLicense
  \/ AllowedLicense
  \/ ProblematicLicense
  \/ CopyleftLicense
  \/ WeakCopyleftLicense
  \/ UnrecognizedLicense
  \/ Return
  \/ CallAgain

SpecRepeat == InitRepeat /\ [][NextRepeat]_vars

(***************************************************************************)
(* What the claims speak of.                                               *)
(***************************************************************************)
\* the normalized license of a dependency
normalizedOf(d) == normalizeLicense(Get(d, "license"))

\* the dependencies argument is a list of dependency records
IsList == dependencies.t = "array"

\* the call is over: it returned the report or it raised an error
Over == pc # "for"

Returned == pc = "returned"

Threw == pc = "threw"

TotalFindings ==
  Len(result.compliant) + Len(result.warnings) + Len(result.violations)
    + Len(result.unknown)

\* the dependencies the loop has classified so far
Classified == 1..idx

\* the position, within its bucket, of the finding of dependency k when the
\* dependencies go to the buckets as f says, each bucket in input order
Rank(f, k) == Cardinality({j \in 1..k : f[j] = f[k]})

\* f sends every dependency to the bucket that holds its one finding
Realises(f) ==
  /\ \A b \in Buckets :
       Len(result[b]) = Cardinality({k \in DOMAIN f : f[k] = b})
  /\ \A k \in DOMAIN f :
       /\ Rank(f, k) <= Len(result[f[k]])
       /\ result[f[k]][Rank(f, k)].package = Get(Items(dependencies)[k], "name")
       /\ result[f[k]][Rank(f, k)].version = Get(Items(dependencies)[k], "version")

PartitionHolds ==
  /\ TotalFindings = Len(Items(dependencies))
  /\ \E f \in [1..Len(Items(dependencies)) -> Buckets] : Realises(f)
  /\ Len(Items(dependencies)) = 0 => \A b \in Buckets : result[b] = <<>>

\* C1 (as claimed): for every dependency list and every policy the call
\* returns a report whose four buckets hold exactly one finding for each
\* dependency, len(compliant)+len(warnings)+len(violations)+len(unknown)
\* being len(dependencies); for the empty list all four buckets are empty.
C1_Partition == (IsList /\ Over) => (Returned /\ PartitionHolds)

\* Every report the call does return partitions the dependencies.
ReturnedReportPartitions == (IsList /\ Returned) => PartitionHolds

\* C4 (as claimed): a call whose dependencies argument is not an array
\* fails with an error and returns no report.
C4_NonArrayFails == (~IsList /\ Over) => (Threw /\ ~Returned)

\* C5 (as claimed): for every list of dependency records whose license is
\* a string or absent, and every policy of string lists, the call returns
\* a report without raising an error.
C5_NoExceptions == (IsList /\ Over) => ~Threw

(***************************************************************************)
(* The rules of the loop body, one dependency at a time.  A step taken     *)
(* from a state where InLoop holds classifies the dependency `dep`.        *)
(***************************************************************************)
\* a string that is one of the identifiers of a list
Member(n, arr) == IsString(n) /\ n.v \in Elements(arr)

\* a normalized license that equals "UNKNOWN" or contains it
UnknownValue(n) ==
  IsString(n) /\ (n.v = "UNKNOWN" \/ StringIncludes(n.v, "UNKNOWN"))

ExpectedFinding(d, l, reason) ==
  [package |-> Get(d, "name"), version |-> Get(d, "version"),
   license |-> l, reason |-> Str(reason)]

\* the step appends exactly this finding to this bucket and changes nothing
\* else of the report
LandsIn(bucket, finding) ==
  result' = [result EXCEPT ![bucket] = Append(@, finding)]

\* the step appends one finding to this bucket and none to the others
GainsIn(bucket) ==
  /\ Len(result'[bucket]) = Len(result[bucket]) + 1
  /\ \A b \in Buckets \ {bucket} : result'[b] = result[b]

\* bucket b of the report holds this finding
Holds(b, finding) == \E j \in 1..Len(result[b]) : result[b][j] = finding

\* the declared license is present in both lists
DeclaredInBoth(d) ==
  Member(Get(d, "license"), allowList) /\ Member(Get(d, "license"), denyList)

\* the normalized license is not unknown and is present in both lists
NormalizedInBoth(d) ==
  /\ ~UnknownValue(normalizedOf(d))
  /\ Member(normalizedOf(d), allowList)
  /\ Member(normalizedOf(d), denyList)

\* C2 (as claimed): every dependency whose declared license is present in
\* both allowList and denyList is placed in violations, whatever the
\* license string and the project license are.
C2_DeclaredInBothIsViolation ==
  [][(InLoop /\ DeclaredInBoth(dep)) => GainsIn("violations")]_vars

\* C2 (amended): every dependency whose normalized license is not unknown
\* and is present in both allowList and denyList is placed in violations,
\* never in compliant, warnings or unknown, whatever the project license is.
C2_DenyPrecedence ==
  [][(InLoop /\ NormalizedInBoth(dep)) => GainsIn("violations")]_vars

C2_Witness ==
  \E k \in Classified :
    LET d == Items(dependencies)[k]
    IN  /\ NormalizedInBoth(d)
        /\ Holds("violations",
                ExpectedFinding(d, normalizedOf(d), "License is explicitly denied"))

\* the normalized license is in the strong-copyleft set and is not unknown,
\* denied, allowed or problematic
C3Case(d) ==
  /\ Member(normalizedOf(d), COPYLEFT_LICENSES)
  /\ ~UnknownValue(normalizedOf(d))
  /\ ~Member(normalizedOf(d), denyList)
  /\ ~Member(normalizedOf(d), PERMISSIVE_LICENSES)
  /\ ~Member(normalizedOf(d), allowList)
  /\ ~Member(normalizedOf(d), PROBLEMATIC_LICENSES)

ProjectIsPermissive == Member(normalizeLicense(projectLicense), PERMISSIVE_LICENSES)

\* C3: a dependency whose normalized license is strong copyleft and is not
\* unknown, denied, allowed or problematic lands in violations exactly when
\* the normalized project license is permissive, with the reason "Copyleft
\* license incompatible with <projectLicense> project" that carries the
\* project license as given; otherwise it lands in warnings with the reason
\* "Copyleft license - check distribution requirements".
C3_StrongCopyleft ==
  [][(InLoop /\ C3Case(dep)) =>
       IF ProjectIsPermissive
         THEN LandsIn("violations", ExpectedFinding(dep, normalizedOf(dep),
                "Copyleft license incompatible with " \o projectLicense.v \o " project"))
         ELSE LandsIn("warnings", ExpectedFinding(dep, normalizedOf(dep),
                "Copyleft license - check distribution requirements"))]_vars

\* a strong-copyleft dependency of a project whose license is permissive
\* only once normalized: a violation whose reason quotes it as given
C3_Witness ==
  \E k \in Classified :
    LET d == Items(dependencies)[k]
    IN  /\ C3Case(d)
        /\ ProjectIsPermissive
        /\ ~Member(projectLicense, PERMISSIVE_LICENSES)
        /\ Holds("violations", ExpectedFinding(d, normalizedOf(d),
                  "Copyleft license incompatible with MIT License project"))

\* C6: a dependency lands in unknown exactly when its normalized license
\* equals "UNKNOWN" or contains it (an absent or empty license included),
\* whatever the deny and allow lists hold; the finding has the reason
\* "License could not be determined" and the raw license of the dependency.
C6_UnknownRule ==
  [][InLoop =>
       /\ UnknownValue(normalizedOf(dep)) <=> result'.unknown # result.unknown
       /\ UnknownValue(normalizedOf(dep)) =>
            LandsIn("unknown", ExpectedFinding(dep, Get(dep, "license"),
                      "License could not be determined"))]_vars

\* an unknown license with "UNKNOWN" on the deny list, and one whose raw
\* value (absent) is not its normalized value, both in unknown
C6_Witness ==
  /\ Member(Str("UNKNOWN"), denyList)
  /\ \E k \in Classified :
       LET d == Items(dependencies)[k]
       IN  /\ Get(d, "license") = Str("UNKNOWN (Go module)")
           /\ Holds("unknown", ExpectedFinding(d, Get(d, "license"),
                     "License could not be determined"))
  /\ \E k \in Classified :
       LET d == Items(dependencies)[k]
       IN  /\ Get(d, "license") = Undefined
           /\ Holds("unknown", ExpectedFinding(d, Undefined,
                     "License could not be determined"))

\* the normalized license is not unknown, is not denied, and is permissive
\* or on the allow list
C7Case(d) ==
  /\ IsString(normalizedOf(d))
  /\ ~UnknownValue(normalizedOf(d))
  /\ ~Member(normalizedOf(d), denyList)
  /\ Member(normalizedOf(d), PERMISSIVE_LICENSES) \/ Member(normalizedOf(d), allowList)

\* C7: a dependency whose normalized license is not unknown, is not on the
\* deny list and is permissive or on the allow list lands in compliant,
\* whatever the project license is; its finding carries the normalized
\* license and no reason; so it is also for an allow-listed license that
\* is copyleft, weak copyleft or problematic.
C7_AllowedRule ==
  [][(InLoop /\ C7Case(dep)) =>
       LandsIn("compliant", [package |-> Get(dep, "name"),
                             version |-> Get(dep, "version"),
                             license |-> normalizedOf(dep)])]_vars

\* an allow-listed license that is problematic and strong copyleft, and a
\* permissive one reached through the alias table, both in compliant
C7_Witness ==
  /\ \E k \in Classified :
       LET d == Items(dependencies)[k]
       IN  /\ C7Case(d)
           /\ Member(normalizedOf(d), PROBLEMATIC_LICENSES)
           /\ Member(normalizedOf(d), COPYLEFT_LICENSES)
           /\ Holds("compliant", [package |-> Get(d, "name"),
                                  version |-> Get(d, "version"),
                                  license |-> normalizedOf(d)])
  /\ \E k \in Classified :
       LET d == Items(dependencies)[k]
       IN  /\ C7Case(d)
           /\ Get(d, "license") # normalizedOf(d)
           /\ Holds("compliant", [package |-> Get(d, "name"),
                                  version |-> Get(d, "version"),
                                  license |-> normalizedOf(d)])

\* the normalized license is problematic and on neither list
C8Case(d) ==
  /\ Member(normalizedOf(d), PROBLEMATIC_LICENSES)
  /\ ~Member(normalizedOf(d), denyList)
  /\ ~Member(normalizedOf(d), allowList)

AGPLVariants == {"AGPL-3.0", "AGPL-3.0-only", "AGPL-3.0-or-later"}

\* no finding of the report has the default reason
NoDefaultReason ==
  \A b \in {"warnings", "violations", "unknown"} :
    \A j \in 1..Len(result[b]) :
      result[b][j].reason # Str("License has usage restrictions")

\* C8: a dependency whose normalized license is problematic and on neither
\* list lands in violations with the reason the reason table gives for it
\* (for the AGPL-3.0 variants one that contains "Network copyleft"),
\* whatever the project license is; no finding ever has the default reason
\* "License has usage restrictions".
C8_ProblematicRule ==
  [][/\ (InLoop /\ C8Case(dep)) =>
          /\ normalizedOf(dep).v \in DOMAIN reasons
          /\ LandsIn("violations", ExpectedFinding(dep, normalizedOf(dep),
                        reasons[normalizedOf(dep).v]))
          /\ normalizedOf(dep).v \in AGPLVariants =>
                StringIncludes(reasons[normalizedOf(dep).v], "Network copyleft")
     /\ NoDefaultReason']_vars

\* an AGPL-3.0 dependency and one with another problematic license, each in
\* violations with its reason of the table
C8_Witness ==
  /\ \E k \in Classified :
       LET d == Items(dependencies)[k]
       IN  /\ C8Case(d)
           /\ normalizedOf(d).v \in AGPLVariants
           /\ Holds("violations", ExpectedFinding(d, normalizedOf(d),
                     "Network copyleft - requires source disclosure for SaaS"))
  /\ \E k \in Classified :
       LET d == Items(dependencies)[k]
       IN  /\ C8Case(d)
           /\ normalizedOf(d).v \notin AGPLVariants
           /\ Holds("violations", ExpectedFinding(d, normalizedOf(d),
                     reasons[normalizedOf(d).v]))

\* the raw license is absent, empty or only whitespace
Blank(raw) == ~IsString(raw) \/ Trim(raw.v) = ""

\* C9 (as claimed): every dependency that lands in warnings with the reason
\* "Unrecognized license - manual review recommended" has a normalized
\* license that is a non-empty string, is not unknown and is in none of
\* denyList, allowList and the four tables; an absent, empty or
\* whitespace-only license never gets this reason.
C9_FallbackRule ==
  [][(InLoop /\ LandsIn("warnings", ExpectedFinding(dep, normalizedOf(dep),
                          "Unrecognized license - manual review recommended"))) =>
       /\ IsString(normalizedOf(dep))
       /\ normalizedOf(dep).v # ""
       /\ ~UnknownValue(normalizedOf(dep))
       /\ ~Member(normalizedOf(dep), denyList)
       /\ ~Member(normalizedOf(dep), allowList)
       /\ ~Member(normalizedOf(dep), PERMISSIVE_LICENSES)
       /\ ~Member(normalizedOf(dep), PROBLEMATIC_LICENSES)
       /\ ~Member(normalizedOf(dep), COPYLEFT_LICENSES)
       /\ ~Member(normalizedOf(dep), WEAK_COPYLEFT_LICENSES)
       /\ ~Blank(Get(dep, "license"))]_vars

\* the normalized license is weak copyleft and on neither list
C10Case(d) ==
  /\ Member(normalizedOf(d), WEAK_COPYLEFT_LICENSES)
  /\ ~Member(normalizedOf(d), denyList)
  /\ ~Member(normalizedOf(d), allowList)

\* C10: a dependency whose normalized license is weak copyleft and on
\* neither list lands in warnings with the reason "Weak copyleft - may
\* require source disclosure for modifications", whatever the project
\* license is.
C10_WeakCopyleftRule ==
  [][(InLoop /\ C10Case(dep)) =>
       LandsIn("warnings", ExpectedFinding(dep, normalizedOf(dep),
                 "Weak copyleft - may require source disclosure for modifications"))]_vars

\* a weak-copyleft dependency in warnings, under a policy with a deny list
\* and a project license that is not permissive
C10_Witness ==
  /\ denyList # <<>>
  /\ ~ProjectIsPermissive
  /\ \E k \in Classified :
       LET d == Items(dependencies)[k]
       IN  /\ C10Case(d)
           /\ Holds("warnings", ExpectedFinding(d, normalizedOf(d),
                     "Weak copyleft - may require source disclosure for modifications"))

(***************************************************************************)
(* The order of the findings within a bucket.                              *)
(***************************************************************************)
\* the finding is the one of dependency d: its name, its version, and its
\* license as declared or as normalized
FindingOf(finding, d) ==
  /\ finding.package = Get(d, "name")
  /\ finding.version = Get(d, "version")
  /\ finding.license \in {Get(d, "license"), normalizedOf(d)}

\* the dependencies f sends to bucket b, as the list of their positions in
\* input order
RECURSIVE SentTo(_, _, _)
SentTo(f, b, n) ==
  IF n = 0 THEN <<>>
  ELSE IF f[n] = b THEN Append(SentTo(f, b, n - 1), n)
  ELSE SentTo(f, b, n - 1)

\* bucket by bucket, the findings are those of the dependencies f sends
\* there, one each, in the order of the dependencies in the input list
InInputOrder(f) ==
  \A b \in Buckets :
    LET sent == SentTo(f, b, idx)
    IN  /\ Len(result[b]) = Len(sent)
        /\ \A j \in 1..Len(sent) :
             FindingOf(result[b][j], Items(dependencies)[sent[j]])

\* C11: within each bucket the findings appear in the same relative order
\* as their dependencies appear in the input list.
C11_OrderPreserved ==
  (Iterable(dependencies) /\ pc \in {"for", "returned"}) =>
    \E f \in [Classified -> Buckets] : InInputOrder(f)

\* a returned report with two findings of different dependencies in one
\* bucket, the first of them being the one of the first dependency
C11_Witness ==
  /\ Returned
  /\ IsList
  /\ \E b \in Buckets :
       /\ Len(result[b]) = 2
       /\ result[b][1].package # result[b][2].package
       /\ result[b][1].package = Get(Items(dependencies)[1], "name")

(***************************************************************************)
(* normalizeLicense, as the loop applies it to the license of `dep`        *)
(* (compliance.js:64).                                                     *)
(***************************************************************************)
\* the identifiers of the four tables, and "UNKNOWN"
Canonical ==
  Elements(PERMISSIVE_LICENSES) \cup Elements(COPYLEFT_LICENSES)
    \cup Elements(WEAK_COPYLEFT_LICENSES) \cup Elements(PROBLEMATIC_LICENSES)
    \cup {"UNKNOWN"}

\* the declared license of d is a canonical identifier
DeclaresCanonical(d) ==
  IsString(Get(d, "license")) /\ Get(d, "license").v \in Canonical

\* C13: for every canonical input x (every identifier of the Permissive,
\* strong-copyleft, weak-copyleft and Problematic sets, and "UNKNOWN"),
\* normalizing the normalized x gives the normalized x again.
C13_Idempotent ==
  (InLoop /\ DeclaresCanonical(dep)) => normalizeLicense(license) = license

\* a dependency that declares a canonical identifier has been classified and
\* its finding carries that identifier
C13_Witness ==
  \E k \in Classified :
    LET d == Items(dependencies)[k]
    IN  /\ DeclaresCanonical(d)
        /\ Get(d, "license").v # "UNKNOWN"
        /\ \E b \in Buckets : \E j \in 1..Len(result[b]) :
             /\ FindingOf(result[b][j], d)
             /\ result[b][j].license = Get(d, "license")

\* the declared license of d is a string that, trimmed, contains " OR "
DeclaresDisjunction(d) ==
  /\ IsString(Get(d, "license"))
  /\ StringIncludes(Trim(Get(d, "license").v), " OR ")

\* the options of the declared license of d: the parts between the " OR ",
\* each trimmed
OptionsOf(d) ==
  LET parts == Split(Trim(Get(d, "license").v), " OR ")
  IN  [k \in 1..Len(parts) |-> Trim(parts[k])]

\* n is what the claimed resolution gives for these options: the leftmost
\* option that is a member of the Permissive set, else the first option
Resolves(opts, n) ==
  \/ \E k \in 1..Len(opts) :
       /\ opts[k] \in Elements(PERMISSIVE_LICENSES)
       /\ \A j \in 1..(k - 1) : opts[j] \notin Elements(PERMISSIVE_LICENSES)
       /\ n = Str(opts[k])
  \/ /\ \A k \in 1..Len(opts) : opts[k] \notin Elements(PERMISSIVE_LICENSES)
     /\ n = Str(opts[1])

DeclaresNoDisjunction(d) ==
  \/ ~IsString(Get(d, "license"))
  \/ ~StringIncludes(Trim(Get(d, "license").v), " OR ")

\* what the claim says normalizing the license raw gives
AliasOrPassThrough(raw) ==
  IF ~IsString(raw) \/ raw.v = "" THEN Str("UNKNOWN")
  ELSE IF Trim(raw.v) \in DOMAIN mappings THEN Str(mappings[Trim(raw.v)])
  ELSE Str(Trim(raw.v))

\* C15 (as claimed): for a license without " OR ", the normalized license
\* is "UNKNOWN" when the license is absent or empty, the alias table's
\* canonical identifier when the trimmed license is exactly one of the
\* table's keys, and for every other string the trimmed license itself,
\* unchanged, as a string.
C15_AliasAndPassThrough ==
  [][(InLoop /\ DeclaresNoDisjunction(dep)) =>
       license = AliasOrPassThrough(Get(dep, "license"))]_vars

(***************************************************************************)
(* getLicenseCategory (specification SpecCategory).                        *)
(***************************************************************************)
\* the first category, in the claimed order, that the normalized license n
\* matches
FirstMatching(n) ==
  IF UnknownValue(n) THEN "unknown"
  ELSE IF Member(n, PROBLEMATIC_LICENSES) THEN "problematic"
  ELSE IF Member(n, PERMISSIVE_LICENSES) THEN "permissive"
  ELSE IF Member(n, COPYLEFT_LICENSES) THEN "copyleft"
  ELSE IF Member(n, WEAK_COPYLEFT_LICENSES) THEN "weak-copyleft"
  ELSE "other"

\* the call of getLicenseCategory is over
CategoryCallOver == pc \in {"returned", "threw"}

\* C12 (as claimed): getLicenseCategory normalizes its argument and returns
\* the first matching category in the order unknown, problematic,
\* permissive, copyleft, weak-copyleft, else other; so a license of both the
\* strong-copyleft and the Problematic set is "problematic", never
\* "copyleft".
C12_CategoryPriority ==
  CategoryCallOver =>
    /\ pc = "returned"
    /\ category.returned = <<Str(FirstMatching(normalizeLicense(category.license)))>>

\* every category the call does return is the first matching one
ReturnedCategoryIsFirstMatching ==
  (CategoryCallOver /\ pc = "returned") =>
    category.returned = <<Str(FirstMatching(normalizeLicense(category.license)))>>

(***************************************************************************)
(* The exit codes of the commands (specification SpecCli).                 *)
(***************************************************************************)
Exited == pc = "exited"

Violations == Len(result.violations)

Warnings == Len(result.warnings)

\* C16: when the scan finds at least one dependency and raises no error, the
\* scan command exits with 2 exactly when the report has at least one
\* violation, with 1 exactly when there is no violation, strict mode is on
\* and there is at least one warning, and with 0 otherwise.
C16_ScanExitCodes ==
  (cli.command = "scan" /\ Exited /\ Len(Items(dependencies)) > 0) =>
    /\ Len(exitCode) = 1
    /\ exitCode[1] \in {0, 1, 2}
    /\ exitCode[1] = 2 <=> Violations > 0
    /\ exitCode[1] = 1 <=> (Violations = 0 /\ cli.strict /\ Warnings > 0)

\* a strict scan of a project with warnings and no violation has exited
\* with 1
C16_Witness ==
  /\ cli.command = "scan"
  /\ Exited
  /\ cli.strict
  /\ Violations = 0
  /\ Warnings > 0
  /\ exitCode = <<1>>

\* C17 (as claimed): the check command exits with 1 for warnings only under
\* strict mode; when the report has warnings, no violations, and strict mode
\* was not requested, it exits with 0.
C17_CheckExitCodes ==
  (cli.command = "check" /\ Exited /\ Violations = 0 /\ Warnings > 0
     /\ ~cli.strict) => exitCode = <<0>>

DefaultPolicy == allowList = <<>> /\ denyList = <<>>

\* the step appends one finding to this bucket, with one of these reasons,
\* and none to the other buckets
GainsWith(bucket, Reasons) ==
  /\ GainsIn(bucket)
  /\ result'[bucket][Len(result'[bucket])].reason \in Reasons

\* the reasons of the problematic table, and its default
ProblematicReasons ==
  {Str(reasons[k]) : k \in DOMAIN reasons} \cup {Str("License has usage restrictions")}

CopyleftReasons ==
  {Str("Copyleft license incompatible with " \o projectLicense.v \o " project"),
   Str("Copyleft license - check distribution requirements")}

\* C19: under the default policy (empty allowList and denyList), for every
\* license string L, a dependency with license L lands in unknown iff
\* getLicenseCategory(L) is "unknown", in compliant iff it is "permissive",
\* in violations with a problematic-table reason iff it is "problematic",
\* in warnings with the weak-copyleft reason iff it is "weak-copyleft", in
\* warnings with the unrecognized reason iff it is "other", and in
\* violations or warnings with a copyleft reason iff it is "copyleft".
C19_CategoryAgreesWithBucket ==
  [][(InLoop /\ DefaultPolicy /\ IsString(Get(dep, "license"))) =>
       LET c == getLicenseCategory(Get(dep, "license"))
       IN  /\ GainsIn("unknown") <=> c = Str("unknown")
           /\ GainsIn("compliant") <=> c = Str("permissive")
           /\ GainsWith("violations", ProblematicReasons) <=> c = Str("problematic")
           /\ GainsWith("warnings",
                {Str("Weak copyleft - may require source disclosure for modifications")})
                <=> c = Str("weak-copyleft")
           /\ GainsWith("warnings",
                {Str("Unrecognized license - manual review recommended")})
                <=> c = Str("other")
           /\ (GainsWith("violations", CopyleftReasons)
                 \/ GainsWith("warnings", CopyleftReasons)) <=> c = Str("copyleft")]_vars

\* under the default policy, one dependency of category "problematic" that
\* is also strong copyleft is in violations with the reason of the
\* problematic table, and one of category "other" is in warnings
C19_Witness ==
  /\ DefaultPolicy
  /\ \E k \in Classified :
       LET d == Items(dependencies)[k]
       IN  /\ getLicenseCategory(Get(d, "license")) = Str("problematic")
           /\ Member(normalizedOf(d), COPYLEFT_LICENSES)
           /\ Holds("violations", ExpectedFinding(d, normalizedOf(d),
                      "Network copyleft - requires source disclosure for SaaS"))
  /\ \E k \in Classified :
       LET d == Items(dependencies)[k]
       IN  /\ getLicenseCategory(Get(d, "license")) = Str("other")
           /\ Holds("warnings", ExpectedFinding(d, normalizedOf(d),
                      "Unrecognized license - manual review recommended"))

(***************************************************************************)
(* Projects scanned from manifests only (specification SpecCli).           *)
(***************************************************************************)
\* every dependency of the project was read from a manifest: package.json
\* without node_modules, requirements.txt, go.mod or Cargo.toml
ManifestOnly ==
  \A k \in 1..Len(Items(dependencies)) :
    Get(Items(dependencies)[k], "installed") = Bool(FALSE)

\* C20: every dependency read from a manifest only has a license containing
\* "UNKNOWN"; so for a project scanned only through those paths every
\* classified dependency is in unknown, violations and warnings are empty for
\* every policy, strict or not, no error is raised, and the scan and check
\* commands exit with 0.
C20_ManifestOnlyPasses ==
  ManifestOnly =>
    /\ \A k \in 1..Len(Items(dependencies)) :
         /\ IsString(Get(Items(dependencies)[k], "license"))
         /\ StringIncludes(Get(Items(dependencies)[k], "license").v, "UNKNOWN")
    /\ result.violations = <<>>
    /\ result.warnings = <<>>
    /\ result.compliant = <<>>
    /\ pc \in {"for", "returned", "exited"} => Len(result.unknown) = idx
    /\ pc \notin {"threw", "failed"}
    /\ Exited => exitCode = <<0>>

\* a strict scan with a deny list of a project of two manifests has exited
\* with 0, both dependencies being in unknown
C20_Witness ==
  /\ ManifestOnly
  /\ cli.command = "scan"
  /\ cli.strict
  /\ denyList # <<>>
  /\ Exited
  /\ exitCode = <<0>>
  /\ Len(result.unknown) = 2
  /\ Get(Items(dependencies)[1], "source") # Get(Items(dependencies)[2], "source")

(***************************************************************************)
(* The status column of the table (specification SpecCli).                 *)
(***************************************************************************)
\* the bucket the loop puts the finding of dependency d in
OwnBucket(d) ==
  LET rule == Rule(normalizedOf(d))
  IN  IF rule = "unknown" THEN "unknown"
      ELSE IF rule = "allowed" THEN "compliant"
      ELSE IF rule \in {"denied", "problematic"} THEN "violations"
      ELSE IF rule = "copyleft" /\ isPermissive(projectLicense) THEN "violations"
      ELSE "warnings"

\* the status the table shows for a finding of this bucket
MarkOf(bucket) ==
  IF bucket = "violations" THEN "violation"
  ELSE IF bucket = "warnings" THEN "warning"
  ELSE IF bucket = "unknown" THEN "unknown"
  ELSE "ok"

\* the scan command has printed the table of a report
TablePrinted ==
  /\ cli.command = "scan"
  /\ cli.format = "table"
  /\ Exited
  /\ Len(rows) = Len(Items(dependencies))
  /\ Len(rows) > 0

\* the report holds the finding of every dependency in its own bucket: the
\* buckets are, in input order, the findings of the dependencies OwnBucket
\* sends there
ReportHoldsOwnFindings ==
  InInputOrder([k \in Classified |-> OwnBucket(Items(dependencies)[k])])

\* the names of the dependencies differ from one another
NamesDistinct ==
  \A j, k \in 1..Len(Items(dependencies)) :
    j # k => Get(Items(dependencies)[j], "name") # Get(Items(dependencies)[k], "name")

\* C21 (as claimed): for every dependency list and the report checkCompliance
\* computed from it, the status formatTable shows on a dependency's row
\* (violation, warning, unknown, or OK) is the bucket that this dependency's
\* own finding was placed in, also when two dependencies of the list share
\* the same name but have different licenses.
C21_StatusMatchesBucket ==
  TablePrinted =>
    /\ ReportHoldsOwnFindings
    /\ \A k \in 1..Len(rows) :
         rows[k].status.mark = MarkOf(OwnBucket(Items(dependencies)[k]))

\* when no two dependencies share a name, every row shows the bucket of its
\* own dependency
StatusMatchesWhenNamesDistinct ==
  (TablePrinted /\ NamesDistinct) =>
    /\ ReportHoldsOwnFindings
    /\ \A k \in 1..Len(rows) :
         rows[k].status.mark = MarkOf(OwnBucket(Items(dependencies)[k]))

====
